---- MODULE Spec2Model ----
(***************************************************************************)
(* Model of linkedin-scraper/linkedin-scraper-auto.py: the LinkedInScraper *)
(* class (login, cookie restore, per-profile extraction, batch run) and    *)
(* main().  Strings are TLA+ strings; a parsed page ("soup") is the list   *)
(* of nodes each selector of the code matches, in document order.          *)
(***************************************************************************)
EXTENDS Integers, Sequences, FiniteSets, TLC

VARIABLES
    pc,            \* position of main(): start, login, manual, awaiting, batch, json, closing, exited
    driver,        \* self.driver: "none" (None), "running", "quit"
    cookies_file,  \* linkedin_cookies.pkl on disk: "absent", "ok", "corrupt"
    force_login,   \* argument of login()
    current_url,   \* driver.current_url
    login_trace,   \* what login() did, in order, each step with the URL it left the browser on
    outcome,       \* how main() left its try block: "running", "completed", "interrupted", "error"
    profile_urls,  \* argument of scrape_multiple_profiles
    idx,           \* number of loop iterations of scrape_multiple_profiles done
    all_profiles,  \* all_profiles
    successful,    \* successful
    failed,        \* failed
    served,        \* per iteration, what the browser gave scrape_profile (a page or a failure)
    sleeps,        \* per iteration, whether the pacing sleep of line 509 ran after it
    summary,       \* the counts printed at lines 517-519, or NoSummary
    returned,      \* the value scrape_multiple_profiles returned, or NotReturned
    csv_file,      \* the CSV output: "absent", "written", "error"
    soup,          \* the page handed to the extractor (extractor specification)
    profile_data,  \* the record scrape_profile returned last
    stale_use,     \* whether self.driver was used while it was not a running browser
    scroll_pc,     \* position of _scroll_slowly: "idle", "loop", "done", "failed"
    current_position, \* current_position of _scroll_slowly
    total_height,  \* total_height of _scroll_slowly, as last measured
    growths        \* how many times the page has grown since _scroll_slowly started

vars == <<pc, driver, cookies_file, force_login, current_url, login_trace, outcome,
          profile_urls, idx, all_profiles, successful, failed, served, sleeps,
          summary, returned, csv_file, soup, profile_data,
          stale_use, scroll_pc, current_position, total_height, growths>>

scrollVars == <<scroll_pc, current_position, total_height, growths>>

-----------------------------------------------------------------------------
(* Bounds of the model *)

\* longest URL list handed to the batch run
MaxUrls == 3
\* how many matching nodes beyond the largest cap a page may hold
MaxExtra == 1
\* how many times a page grows while it is scrolled, before it stops growing
MaxGrowths == 2

(* Program constants *)

\* exp_items[:5]
ExpCap == 5
\* edu_items[:3]
EduCap == 3
\* skill_items[:10]
SkillCap == 10
\* random.randint(200, 400): the smallest scroll distance
MinStep == 200
\* random.randint(200, 400): the largest scroll distance
MaxStep == 400

-----------------------------------------------------------------------------
(* Strings *)

\* Python's `p in s` on strings
Contains(s, p) ==
    \E k \in 1..(Len(s) - Len(p) + 1) : SubSeq(s, k, k + Len(p) - 1) = p

IsSpace(c) == c \in {" ", "\t", "\n"}

RECURSIVE LStrip(_)
LStrip(s) ==
    IF Len(s) > 0 /\ IsSpace(SubSeq(s, 1, 1))
    THEN LStrip(SubSeq(s, 2, Len(s)))
    ELSE s

RECURSIVE RStrip(_)
RStrip(s) ==
    IF Len(s) > 0 /\ IsSpace(SubSeq(s, Len(s), Len(s)))
    THEN RStrip(SubSeq(s, 1, Len(s) - 1))
    ELSE s

\* str.strip()
Strip(s) == RStrip(LStrip(s))

Min(a, b) == IF a < b THEN a ELSE b

-----------------------------------------------------------------------------
(* The parsed page.  Each field is the sequence of nodes one selector of   *)
(* the code matches, in document order; a node is its text, or for a       *)
(* container the matches of the selectors applied inside it.  `raises` is  *)
(* the set of fields whose selector evaluation throws.                     *)

Fields == {"name", "headline", "location", "about", "experience", "education", "skills"}

\* a node whose get_text() throws
BadNode == "<raises>"

EmptySoup ==
    [raises |-> {},
     h1_xlarge |-> <<>>,          \* h1, class contains text-heading-xlarge
     h1_panel |-> <<>>,           \* h1, class pv-text-details__left-panel
     div_body_medium |-> <<>>,    \* div, class contains text-body-medium
     span_body_small |-> <<>>,    \* span, class contains text-body-small
     div_pv_about |-> <<>>,       \* div pv-about, each the inline-show-more-text divs in it
     section_experience |-> <<>>, \* section id~experience, each its li profile-section-card
     section_education |-> <<>>,  \* section id~education, each its li profile-section-card
     section_skills |-> <<>>]     \* section id~skills, each its div mr1

\* n list items (li.profile-section-card) labelled in document order; the
\* items at the positions in `bad` throw when searched
Cards(n, a, b, bad) ==
    [k \in 1..n |->
        [div_mr1 |-> IF k % 4 = 0 THEN <<>> ELSE <<" " \o a \o ToString(k) \o " ">>,
         span_t14 |-> IF k % 3 = 0 THEN <<>> ELSE <<b \o ToString(k), b \o "x">>,
         raises |-> k \in bad]]

\* n skill nodes (div.mr1) labelled in document order; those at the
\* positions in `blank` are whitespace only, those in `bad` throw
SkillNodes(n, blank, bad) ==
    [k \in 1..n |->
        IF k \in bad THEN BadNode
        ELSE IF k \in blank THEN "  "
        ELSE "skill" \o ToString(k) \o "\n"]

-----------------------------------------------------------------------------
(* Field extraction: lines 370-478.  The body of each try block ends with  *)
(* a value or with a raised exception (for a list field, together with     *)
(* the list built so far); the except clause turns the exception into the  *)
(* default and the function returns normally.                              *)

Value(v) == [raised |-> FALSE, value |-> v]
Raise(v) == [raised |-> TRUE, value |-> v]

\* the placeholder the core-field extractors return
NA == "N/A"

\* lines 373-381
_extract_name_try(s) ==
    IF "name" \in s.raises THEN Raise("exception")
    ELSE IF s.h1_xlarge # <<>> THEN Value(Strip(s.h1_xlarge[1]))
    ELSE IF s.h1_panel # <<>> THEN Value(Strip(s.h1_panel[1]))
    ELSE Value(NA)

\* lines 370-385
_extract_name(s) ==
    LET r == _extract_name_try(s) IN IF r.raised THEN Value(NA) ELSE r

\* lines 390-392
_extract_headline_try(s) ==
    IF "headline" \in s.raises THEN Raise("exception")
    ELSE IF s.div_body_medium # <<>> THEN Value(Strip(s.div_body_medium[1]))
    ELSE Value(NA)

\* the extractor without its try/except: the exception leaves the function
_extract_headline_unguarded(s) == _extract_headline_try(s)

\* lines 387-395
_extract_headline(s) ==
    LET r == _extract_headline_try(s) IN IF r.raised THEN Value(NA) ELSE r

\* lines 400-402
_extract_location_try(s) ==
    IF "location" \in s.raises THEN Raise("exception")
    ELSE IF s.span_body_small # <<>> THEN Value(Strip(s.span_body_small[1]))
    ELSE Value(NA)

\* lines 397-405
_extract_location(s) ==
    LET r == _extract_location_try(s) IN IF r.raised THEN Value(NA) ELSE r

\* lines 410-414
_extract_about_try(s) ==
    IF "about" \in s.raises THEN Raise("exception")
    ELSE IF s.div_pv_about # <<>> /\ s.div_pv_about[1] # <<>>
         THEN Value(Strip(s.div_pv_about[1][1]))
    ELSE Value(NA)

\* lines 407-417
_extract_about(s) ==
    LET r == _extract_about_try(s) IN IF r.raised THEN Value(NA) ELSE r

\* item.find(...).get_text().strip() if found else 'N/A' (lines 432-433, 455-456)
TextOrNA(nodes) == IF nodes # <<>> THEN Strip(nodes[1]) ELSE NA

\* the loop of lines 426-437 (and 449-460) over the items already sliced:
\* an item that throws is skipped (bare except: continue)
RECURSIVE CardLoop(_, _, _, _)
CardLoop(items, k1, k2, acc) ==
    IF items = <<>> THEN acc
    ELSE LET item == Head(items)
             data == (k1 :> TextOrNA(item.div_mr1)) @@ (k2 :> TextOrNA(item.span_t14))
         IN  CardLoop(Tail(items), k1, k2,
                      IF item.raises THEN acc ELSE Append(acc, data))

\* a slice without its upper limit
SliceExperienceUncapped(items) == items

\* exp_items[:5] (line 426)
SliceExperience(items) == SubSeq(items, 1, Min(Len(items), ExpCap))

\* lines 423-437
_extract_experience_try(s) ==
    IF "experience" \in s.raises THEN Raise(<<>>)
    ELSE IF s.section_experience # <<>>
         THEN Value(CardLoop(SliceExperience(s.section_experience[1]),
                             "title", "company", <<>>))
    ELSE Value(<<>>)

\* lines 419-440
_extract_experience(s) == Value(_extract_experience_try(s).value)

\* edu_items[:3] (line 449)
SliceEducation(items) == SubSeq(items, 1, Min(Len(items), EduCap))

\* lines 446-460
_extract_education_try(s) ==
    IF "education" \in s.raises THEN Raise(<<>>)
    ELSE IF s.section_education # <<>>
         THEN Value(CardLoop(SliceEducation(s.section_education[1]),
                             "school", "degree", <<>>))
    ELSE Value(<<>>)

\* lines 442-463
_extract_education(s) == Value(_extract_education_try(s).value)

\* the loop of lines 472-475: a node that throws leaves the loop for the
\* handler of line 476, with the skills collected so far
RECURSIVE SkillLoop(_, _)
SkillLoop(items, acc) ==
    IF items = <<>> THEN Value(acc)
    ELSE IF Head(items) = BadNode THEN Raise(acc)
    ELSE LET skill_text == Strip(Head(items))
         IN  SkillLoop(Tail(items),
                       IF skill_text # "" THEN Append(acc, skill_text) ELSE acc)

\* skill_items[:10] (line 472)
SliceSkills(items) == SubSeq(items, 1, Min(Len(items), SkillCap))

\* lines 469-475
_extract_skills_try(s) ==
    IF "skills" \in s.raises THEN Raise(<<>>)
    ELSE IF s.section_skills # <<>>
         THEN SkillLoop(SliceSkills(s.section_skills[1]), <<>>)
    ELSE Value(<<>>)

\* lines 465-478
_extract_skills(s) == Value(_extract_skills_try(s).value)

-----------------------------------------------------------------------------
(* scrape_profile: lines 327-368.  `nav` is what the browser does with the *)
(* URL: a failure of driver.get / page_source (an exception with its       *)
(* message) or the page it renders.                                        *)

NavFail(msg) == [ok |-> FALSE, error |-> msg]
NavPage(s) == [ok |-> TRUE, soup |-> s]

\* an error record that also carries a defaulted field
ErrorRecordWithName(url, msg) == [url |-> url, name |-> NA, error |-> msg]

\* line 368
ErrorRecord(url, msg) == [url |-> url, error |-> msg]

\* lines 340-364: the try block
scrape_profile_try(url, nav) ==
    IF ~nav.ok THEN Raise(nav.error)
    ELSE LET s == nav.soup
             n == _extract_name(s)
             h == _extract_headline(s)
             l == _extract_location(s)
             a == _extract_about(s)
             x == _extract_experience(s)
             e == _extract_education(s)
             k == _extract_skills(s)
         IN  IF \E r \in {n, h, l, a} : r.raised
             THEN Raise("exception")
             ELSE IF x.raised \/ e.raised \/ k.raised
             THEN Raise("exception")
             ELSE Value([url |-> url,
                         name |-> n.value,
                         headline |-> h.value,
                         location |-> l.value,
                         about |-> a.value,
                         experience |-> x.value,
                         education |-> e.value,
                         skills |-> k.value])

\* scrape_profile without its except clause: the exception reaches the caller
scrape_profile_unguarded(url, nav) == scrape_profile_try(url, nav)

\* lines 327-368
scrape_profile(url, nav) ==
    LET r == scrape_profile_try(url, nav)
    IN  IF r.raised THEN Value(ErrorRecord(url, r.value)) ELSE r

-----------------------------------------------------------------------------
(* URLs and the patterns login() looks for *)

RootUrl == "https://www.linkedin.com"
HomeUrl == "https://www.linkedin.com/"
LoginUrl == "https://www.linkedin.com/login"
FeedUrl == "https://www.linkedin.com/feed/"
NetworkUrl == "https://www.linkedin.com/mynetwork/"
CheckpointUrl == "https://www.linkedin.com/checkpoint/lg/login-submit"
ChallengeUrl == "https://www.linkedin.com/uas/challenge/verify"

\* a test that accepts every URL
AnyUrl(url) == TRUE

\* line 282
IsLoggedInUrl(url) == Contains(url, "feed") \/ Contains(url, "mynetwork")

\* line 311
IsChallengeUrl(url) == Contains(url, "checkpoint") \/ Contains(url, "challenge")

\* where the browser may be after the refresh of line 278
RestoreUrls == {FeedUrl, NetworkUrl, HomeUrl, LoginUrl}
\* where the browser may be after the click of line 305 and the wait of line 308
SubmitUrls == {FeedUrl, LoginUrl, CheckpointUrl, ChallengeUrl}
\* where the browser may be when the operator presses Enter at line 314
AckUrls(url) == {FeedUrl, url}

-----------------------------------------------------------------------------
(* Inputs *)

ProfileUrls == {"https://www.linkedin.com/in/a/", "https://www.linkedin.com/in/b/"}

UrlLists == UNION {[1..n -> ProfileUrls] : n \in 0..MaxUrls}

\* a rendered profile page
ProfileSoup ==
    [EmptySoup EXCEPT
        !.h1_xlarge = <<" Jane Doe ">>,
        !.span_body_small = <<"\nPune, India\n">>,
        !.section_experience = <<Cards(2, "title", "company", {})>>,
        !.section_skills = <<SkillNodes(3, {2}, {})>>]

\* what the browser may do with a profile URL during the batch
BatchNavs == {NavFail("TimeoutException"), NavPage(EmptySoup), NavPage(ProfileSoup)}

NoSummary == [printed |-> FALSE]
NotReturned == <<>>
NoSoup == [raises |-> {}]
NoRecord == [url |-> ""]

\* _scroll_slowly is not running
ScrollIdle ==
    /\ scroll_pc = "idle"
    /\ current_position = 0
    /\ total_height = 0
    /\ growths = 0

-----------------------------------------------------------------------------
(* main(), lines 605-630 *)

Init ==
    /\ pc = "start"
    /\ driver = "none"
    /\ cookies_file \in {"absent", "ok", "corrupt"}
    /\ force_login \in BOOLEAN
    /\ current_url = ""
    /\ login_trace = <<>>
    /\ outcome = "running"
    /\ profile_urls \in UrlLists
    /\ idx = 0
    /\ all_profiles = <<>>
    /\ successful = 0
    /\ failed = 0
    /\ served = <<>>
    /\ sleeps = <<>>
    /\ summary = NoSummary
    /\ returned = NotReturned
    /\ csv_file = "absent"
    /\ soup = NoSoup
    /\ profile_data = NoRecord
    /\ stale_use = FALSE
    /\ ScrollIdle

\* a use of self.driver (a navigation, a script, a read of its URL or cookies)
UseDriver == stale_use \/ driver # "running"

batchVars == <<profile_urls, idx, all_profiles, successful, failed, served, sleeps,
               summary, returned, csv_file, soup, profile_data>>

\* an exception leaves login() or scrape_multiple_profiles and reaches the
\* handlers of lines 625-628
Abort(how) ==
    /\ pc' = "closing"
    /\ outcome' = how

\* save_cookies, lines 236-243: a failed write is reported and swallowed
save_cookies(written) == IF written THEN "ok" ELSE cookies_file

\* lines 273-274: _setup_driver (lines 131-200) starts the browser or raises
SetupDriver ==
    /\ pc = "start"
    /\ \E started \in BOOLEAN :
          IF started
          THEN /\ driver' = "running"
               /\ pc' = "login"
               /\ UNCHANGED outcome
          ELSE /\ UNCHANGED driver
               /\ Abort("error")
    /\ UNCHANGED <<cookies_file, force_login, current_url, login_trace>>
    /\ UNCHANGED batchVars
    /\ UNCHANGED scrollVars
    /\ UNCHANGED stale_use

\* an entry of login_trace: what login() did and the URL the browser is on after it
Ev(op, url) == [op |-> op, url |-> url]

\* load_cookies that goes to the site before it looks for the file
load_cookies_eager(readable) ==
    IF cookies_file = "ok" /\ readable
    THEN [events |-> <<Ev("get_root", RootUrl), Ev("load_file", RootUrl),
                       Ev("add_cookies", RootUrl)>>, result |-> TRUE]
    ELSE [events |-> <<Ev("get_root", RootUrl), Ev("load_file", RootUrl)>>,
          result |-> FALSE]

\* load_cookies, lines 245-264, as the events it adds to the trace and its
\* result; `readable` is whether the file unpickles
load_cookies(readable) ==
    IF cookies_file = "absent" THEN [events |-> <<>>, result |-> FALSE]
    ELSE IF cookies_file = "ok" /\ readable
         THEN [events |-> <<Ev("get_root", RootUrl), Ev("load_file", RootUrl),
                            Ev("add_cookies", RootUrl)>>, result |-> TRUE]
    ELSE [events |-> <<Ev("get_root", RootUrl), Ev("load_file", RootUrl)>>,
          result |-> FALSE]

\* lines 276-284: the cookie restore and its validation
CookieRestore ==
    /\ pc = "login"
    /\ \E readable \in BOOLEAN, url \in RestoreUrls :
          LET loaded == IF force_login
                        THEN [events |-> <<>>, result |-> FALSE]
                        ELSE load_cookies(readable)
          IN  IF loaded.result
              THEN /\ current_url' = url
                   /\ stale_use' = UseDriver
                   /\ IF IsLoggedInUrl(url)
                      THEN /\ login_trace' = login_trace \o loaded.events
                                               \o <<Ev("refresh", url), Ev("return", url)>>
                           /\ pc' = "batch"
                      ELSE /\ login_trace' = login_trace \o loaded.events
                                               \o <<Ev("refresh", url)>>
                           /\ pc' = "manual"
              ELSE /\ current_url' = IF loaded.events # <<>> THEN RootUrl ELSE current_url
                   /\ login_trace' = login_trace \o loaded.events
                   /\ pc' = "manual"
                   /\ stale_use' = IF loaded.events # <<>> THEN UseDriver ELSE stale_use
    /\ UNCHANGED <<driver, cookies_file, force_login, outcome>>
    /\ UNCHANGED batchVars
    /\ UNCHANGED scrollVars

\* lines 286-325 up to the check of line 311: the login form
ManualLogin ==
    /\ pc = "manual"
    /\ \E fields \in BOOLEAN, url \in SubmitUrls, written \in BOOLEAN :
          IF ~fields
          THEN \* TimeoutException, re-raised at line 322
               /\ current_url' = LoginUrl
               /\ login_trace' = login_trace
                                   \o <<Ev("get_login", LoginUrl), Ev("timeout", LoginUrl)>>
               /\ Abort("error")
               /\ UNCHANGED cookies_file
          ELSE /\ current_url' = url
               /\ UNCHANGED outcome
               /\ IF IsChallengeUrl(url)
                  THEN /\ login_trace' = login_trace
                                           \o <<Ev("get_login", LoginUrl), Ev("submit", url),
                                                Ev("prompt", url)>>
                       /\ pc' = "awaiting"
                       /\ UNCHANGED cookies_file
                  ELSE /\ login_trace' = login_trace
                                           \o <<Ev("get_login", LoginUrl), Ev("submit", url),
                                                Ev("save_cookies", url), Ev("return", url)>>
                       /\ cookies_file' = save_cookies(written)
                       /\ pc' = "batch"
    /\ UNCHANGED <<driver, force_login>>
    /\ UNCHANGED batchVars
    /\ UNCHANGED scrollVars
    /\ stale_use' = UseDriver

\* line 314 returns (the operator pressed Enter), then lines 316-318
ChallengeAck ==
    /\ pc = "awaiting"
    /\ \E url \in AckUrls(current_url), written \in BOOLEAN :
          /\ current_url' = url
          /\ cookies_file' = save_cookies(written)
          /\ login_trace' = login_trace
                              \o <<Ev("ack", url), Ev("save_cookies", url), Ev("return", url)>>
    /\ pc' = "batch"
    /\ UNCHANGED <<driver, force_login, outcome>>
    /\ UNCHANGED batchVars
    /\ UNCHANGED scrollVars
    /\ stale_use' = UseDriver

-----------------------------------------------------------------------------
(* scrape_multiple_profiles, lines 480-522 *)

\* line 498
AppendProfile(profiles, rec) == Append(profiles, rec)

\* a tally that looks at the name instead of the error key
TallyByName(rec, tally) ==
    IF "name" \in DOMAIN rec /\ rec.name # NA
    THEN [tally EXCEPT !.successful = @ + 1]
    ELSE [tally EXCEPT !.failed = @ + 1]

\* lines 500-503
Tally(rec, tally) ==
    IF "error" \in DOMAIN rec
    THEN [tally EXCEPT !.failed = @ + 1]
    ELSE [tally EXCEPT !.successful = @ + 1]

\* a delay after every profile, the last one too
PacingAlways(i, n) == TRUE

\* line 506, i counting from 1
Pacing(i, n) == i < n

\* one iteration of the loop of lines 492-509
ScrapeNext ==
    /\ pc = "batch"
    /\ idx < Len(profile_urls)
    /\ \E nav \in BatchNavs :
          LET url == profile_urls[idx + 1]
              r == scrape_profile(url, nav)
              t == Tally(r.value, [successful |-> successful, failed |-> failed])
          IN  /\ served' = Append(served, nav)
              /\ soup' = IF nav.ok THEN nav.soup ELSE soup
              /\ current_url' = IF nav.ok THEN url ELSE current_url
              /\ IF r.raised
                 THEN /\ Abort("error")
                      /\ UNCHANGED <<idx, all_profiles, successful, failed, sleeps,
                                     profile_data>>
                 ELSE /\ profile_data' = r.value
                      /\ all_profiles' = AppendProfile(all_profiles, r.value)
                      /\ successful' = t.successful
                      /\ failed' = t.failed
                      /\ sleeps' = Append(sleeps, Pacing(idx + 1, Len(profile_urls)))
                      /\ idx' = idx + 1
                      /\ UNCHANGED <<pc, outcome>>
    /\ stale_use' = UseDriver
    /\ UNCHANGED <<driver, cookies_file, force_login, login_trace, profile_urls,
                   summary, returned, csv_file>>
    /\ UNCHANGED scrollVars

\* _save_to_csv, lines 524-554: nothing to write, written, or a write error
\* that is reported and swallowed
_save_to_csv(profiles, writable) ==
    IF profiles = <<>> THEN csv_file
    ELSE IF writable THEN "written"
    ELSE "error"

\* lines 511-522: the CSV, the summary and the return; line 520 divides by
\* len(profile_urls)
FinishBatch ==
    /\ pc = "batch"
    /\ idx = Len(profile_urls)
    /\ \E writable \in BOOLEAN : csv_file' = _save_to_csv(all_profiles, writable)
    /\ summary' = [printed |-> TRUE, total |-> Len(profile_urls),
                   successful |-> successful, failed |-> failed]
    /\ IF Len(profile_urls) = 0
       THEN \* ZeroDivisionError
            /\ Abort("error")
            /\ UNCHANGED returned
       ELSE /\ returned' = <<all_profiles>>
            /\ pc' = "json"
            /\ UNCHANGED outcome
    /\ UNCHANGED <<driver, cookies_file, force_login, current_url, login_trace,
                   profile_urls, idx, all_profiles, successful, failed, served, sleeps,
                   soup, profile_data>>
    /\ UNCHANGED stale_use
    /\ UNCHANGED scrollVars

\* lines 620-623: the JSON copy; a write error reaches the handler of line 627
SaveJson ==
    /\ pc = "json"
    /\ \E writable \in BOOLEAN :
          outcome' = IF writable THEN "completed" ELSE "error"
    /\ pc' = "closing"
    /\ UNCHANGED <<driver, cookies_file, force_login, current_url, login_trace>>
    /\ UNCHANGED batchVars
    /\ UNCHANGED scrollVars
    /\ UNCHANGED stale_use

\* line 625: the operator interrupts the run
Interrupt ==
    /\ pc \in {"start", "login", "manual", "awaiting", "batch", "json"}
    /\ Abort("interrupted")
    /\ UNCHANGED <<driver, cookies_file, force_login, current_url, login_trace>>
    /\ UNCHANGED batchVars
    /\ UNCHANGED scrollVars
    /\ UNCHANGED stale_use

\* close() called at the end of the try block only, not in a finally clause
CloseOnSuccessOnly ==
    /\ pc = "closing"
    /\ driver' = IF driver = "running" /\ outcome = "completed" THEN "quit" ELSE driver
    /\ pc' = "exited"
    /\ UNCHANGED <<cookies_file, force_login, current_url, login_trace, outcome>>
    /\ UNCHANGED batchVars
    /\ UNCHANGED scrollVars
    /\ UNCHANGED stale_use

\* lines 629-630 and close, lines 556-560
Close ==
    /\ pc = "closing"
    /\ driver' = IF driver = "running" THEN "quit" ELSE driver
    /\ pc' = "exited"
    /\ UNCHANGED <<cookies_file, force_login, current_url, login_trace, outcome>>
    /\ UNCHANGED batchVars
    /\ UNCHANGED scrollVars
    /\ UNCHANGED stale_use

Next ==
    \/ SetupDriver
    \/ CookieRestore
    \/ ManualLogin
    \/ ChallengeAck
    \/ ScrapeNext
    \/ FinishBatch
    \/ SaveJson
    \/ Interrupt
    \/ Close

Spec == Init /\ [][Next]_vars

-----------------------------------------------------------------------------
(* Properties of the batch run *)

HasError(rec) == "error" \in DOMAIN rec

\* login() returned normally
LoginReturned == login_trace # <<>> /\ login_trace[Len(login_trace)].op = "return"

\* the URL the browser was on when login() returned
LoginExitUrl == login_trace[Len(login_trace)].url

TraceOps == {login_trace[k].op : k \in 1..Len(login_trace)}

\* the URL is one of the post-login pages (feed, network)
OnPostLoginPage(url) == \E p \in {"feed", "mynetwork"} : Contains(url, p)

\* C1: for every input URL list, the empty one included, the batch run
\* returns a sequence as long as the input whose i-th record carries the
\* i-th input URL.  Stated of every run of scrape_multiple_profiles that got
\* past its loop (the summary was printed).
C1_ReturnsOnePerUrl ==
    summary.printed =>
        /\ returned # NotReturned
        /\ Len(returned[1]) = Len(profile_urls)
        /\ \A k \in 1..Len(profile_urls) : returned[1][k].url = profile_urls[k]

\* C2: a navigation failure for one URL gives an error-tagged record for
\* that URL only and does not end the batch: the loop leaves no URL out
\* (an exception leaves the batch only after every URL was processed), and
\* every URL whose page rendered has a record without `error`.
C2_FailureIsolated ==
    /\ Len(served) = Len(all_profiles)
    /\ Len(served) = idx
    /\ \A k \in 1..Len(all_profiles) :
          /\ all_profiles[k].url = profile_urls[k]
          /\ HasError(all_profiles[k]) <=> ~served[k].ok
          /\ ~served[k].ok => all_profiles[k] = [url |-> profile_urls[k],
                                                  error |-> served[k].error]
    /\ (LoginReturned /\ outcome \in {"error", "completed"}) => idx = Len(profile_urls)
    /\ summary.printed => Len(served) = Len(profile_urls)

\* C2 witness: a finished batch of three whose first navigation failed and
\* whose later URLs were still processed, the second one successfully
C2_Witness ==
    /\ summary.printed
    /\ Len(profile_urls) = 3
    /\ ~served[1].ok
    /\ served[2].ok /\ ~HasError(all_profiles[2])
    /\ ~served[3].ok

\* C3: the counts reported are attempted = len(URLs), failed = the number
\* of records in the output that have `error`, succeeded = the number
\* without, and succeeded + failed = attempted.
C3_CountsMatchOutput ==
    summary.printed =>
        /\ summary.total = Len(profile_urls)
        /\ summary.failed =
              Cardinality({k \in 1..Len(all_profiles) : HasError(all_profiles[k])})
        /\ summary.successful =
              Cardinality({k \in 1..Len(all_profiles) : ~HasError(all_profiles[k])})
        /\ summary.successful + summary.failed = summary.total

\* C3 witness: three URLs, only the second navigation fails: 2 succeeded, 1 failed
C3_Witness ==
    /\ summary.printed
    /\ Len(profile_urls) = 3
    /\ served[1].ok /\ ~served[2].ok /\ served[3].ok
    /\ summary.successful = 2
    /\ summary.failed = 1

-----------------------------------------------------------------------------
(* Properties of login() *)

\* C7: login returns normally (cookies persisted, batch allowed to start)
\* only when the browser ended on an authenticated URL; otherwise the run
\* aborts and no profile URL is visited.
C7_ReturnsOnlyAuthenticated ==
    /\ LoginReturned => OnPostLoginPage(LoginExitUrl)
    /\ served # <<>> => (LoginReturned /\ OnPostLoginPage(LoginExitUrl))
    /\ "timeout" \in TraceOps => (~LoginReturned /\ served = <<>>)

\* C8: after stored cookies were injected and the page reloaded, login
\* returns at once only if the URL it then reads matches a post-login
\* pattern; if it does not match, success is not declared and the next
\* thing login does is the manual login flow.
C8_RestoreValidated ==
    \A k \in 1..Len(login_trace) :
        login_trace[k].op = "refresh" =>
            /\ k > 1 /\ login_trace[k - 1].op = "add_cookies"
            /\ IF OnPostLoginPage(login_trace[k].url)
               THEN k < Len(login_trace) /\ login_trace[k + 1].op = "return"
               ELSE IF k = Len(login_trace)
                    THEN pc = "manual" \/ outcome = "interrupted"
                    ELSE login_trace[k + 1].op = "get_login"

\* C8 witness: a restored session whose URL did not match, after which the
\* manual flow ran and logged in
C8_Witness ==
    /\ LoginReturned
    /\ \E k \in 1..Len(login_trace) :
          /\ login_trace[k].op = "refresh"
          /\ login_trace[k].url = HomeUrl
          /\ login_trace[k + 1].op = "get_login"

RestoreOps == {"get_root", "load_file", "add_cookies", "refresh"}

\* C9: the cookie restore (navigating to the site root, loading and
\* injecting the stored cookies, reloading) happens only when a stored
\* cookie file exists and a fresh login is not forced; without it, a login
\* that returns went through the manual flow.
C9_RestoreOnlyWhenStored ==
    /\ (force_login \/ cookies_file = "absent") => TraceOps \cap RestoreOps = {}
    /\ (LoginReturned /\ TraceOps \cap RestoreOps = {}) =>
          /\ login_trace[1].op = "get_login"
          /\ "submit" \in TraceOps

\* C9 witness: no stored session (the save failed too), valid credentials:
\* login returned on the feed through the manual flow alone
C9_Witness ==
    /\ cookies_file = "absent"
    /\ ~force_login
    /\ LoginReturned
    /\ LoginExitUrl = FeedUrl
    /\ [k \in 1..Len(login_trace) |-> login_trace[k].op]
          = <<"get_login", "submit", "save_cookies", "return">>

\* C10: after a challenge prompt was acknowledged, cookies are persisted
\* and login returns only if the URL read after the acknowledgement is an
\* authenticated one (the challenge was resolved).
C10_ChallengeRevalidated ==
    \A k \in 1..Len(login_trace) :
        (login_trace[k].op = "ack" /\ k < Len(login_trace)
            /\ login_trace[k + 1].op \in {"save_cookies", "return"})
        => OnPostLoginPage(login_trace[k].url)

-----------------------------------------------------------------------------
(* The extractor on its own: scrape_profile applied to one page drawn from *)
(* a family of pages that varies the nodes each selector matches.          *)

\* heading, headline, location and about nodes present or absent, with
\* surrounding whitespace, an empty first match and a second match
CoreSoups ==
    {[EmptySoup EXCEPT
         !.h1_xlarge = x, !.h1_panel = p, !.div_body_medium = m,
         !.span_body_small = l, !.div_pv_about = a] :
       x \in {<<>>, <<" Jane Doe ">>, <<"", "Not Jane">>},
       p \in {<<>>, <<"J. Doe">>},
       m \in {<<>>, <<"Engineer\n", "Other">>},
       l \in {<<>>, <<"\tPune ">>},
       a \in {<<>>, <<<<>>>>, <<<<" About me ", "more">>, <<"second section">>>>}}

\* experience and education sections of every length up to past the cap,
\* some with an item that throws, one followed by a second section
CardSoups ==
    {[EmptySoup EXCEPT
         !.h1_xlarge = <<"Jane Doe">>,
         !.section_experience = <<Cards(n, "title", "company", bad), Cards(1, "t", "c", {})>>,
         !.section_education = <<Cards(d, "school", "degree", bad)>>] :
       n \in 0..(ExpCap + MaxExtra), d \in 0..(EduCap + MaxExtra), bad \in {{}, {2}}}

\* skills sections of every length up to past the cap, with blank nodes
\* and with a node that throws
SkillSoups ==
    {[EmptySoup EXCEPT
         !.h1_panel = <<"Jane Doe">>,
         !.section_skills = <<SkillNodes(n, blank, bad)>>] :
       n \in 0..(SkillCap + MaxExtra), blank \in {{}, {1, 4}}, bad \in {{}, {3}, {SkillCap}}}

\* a full page
FullSoup ==
    [EmptySoup EXCEPT
        !.h1_xlarge = <<" Jane Doe ">>,
        !.div_body_medium = <<"Engineer">>,
        !.span_body_small = <<"Pune">>,
        !.div_pv_about = <<<<"About me">>>>,
        !.section_experience = <<Cards(ExpCap + MaxExtra, "title", "company", {1})>>,
        !.section_education = <<Cards(EduCap + MaxExtra, "school", "degree", {})>>,
        !.section_skills = <<SkillNodes(SkillCap + MaxExtra, {2}, {})>>]

\* pages on which the evaluation of some fields' selectors throws
RaisingSoups ==
    {[s EXCEPT !.raises = r] : s \in {FullSoup, EmptySoup}, r \in SUBSET Fields}

ExtractSoups == CoreSoups \cup CardSoups \cup SkillSoups \cup RaisingSoups

ExtractUrl == "https://www.linkedin.com/in/jane/"

InitExtract ==
    /\ pc = "extract"
    /\ driver = "running"
    /\ cookies_file = "ok"
    /\ force_login = FALSE
    /\ current_url = FeedUrl
    /\ login_trace = <<>>
    /\ outcome = "running"
    /\ profile_urls = <<ExtractUrl>>
    /\ idx = 0
    /\ all_profiles = <<>>
    /\ successful = 0
    /\ failed = 0
    /\ served = <<>>
    /\ sleeps = <<>>
    /\ summary = NoSummary
    /\ returned = NotReturned
    /\ csv_file = "absent"
    /\ soup \in ExtractSoups
    /\ profile_data = NoRecord
    /\ stale_use = FALSE
    /\ ScrollIdle

\* one call of scrape_profile (lines 327-368) on the page drawn, or on a
\* navigation that fails
ScrapeProfile ==
    /\ pc = "extract"
    /\ \E nav \in {NavPage(soup), NavFail("TimeoutException")} :
          LET r == scrape_profile(ExtractUrl, nav)
          IN  /\ served' = Append(served, nav)
              /\ IF r.raised
                 THEN /\ pc' = "raised"
                      /\ UNCHANGED profile_data
                 ELSE /\ pc' = "extracted"
                      /\ profile_data' = r.value
    /\ UNCHANGED <<driver, cookies_file, force_login, current_url, login_trace, outcome,
                   profile_urls, idx, all_profiles, successful, failed, sleeps,
                   summary, returned, csv_file, soup>>
    /\ stale_use' = UseDriver
    /\ UNCHANGED scrollVars

NextExtract == ScrapeProfile

SpecExtract == InitExtract /\ [][NextExtract]_vars

-----------------------------------------------------------------------------
(* Properties of the extractor *)

CoreFields == {"name", "headline", "location", "about"}
ListFields == {"experience", "education", "skills"}

\* scrape_profile returned a record for the page drawn
Extracted == pc = "extracted" /\ served[1].ok

\* the texts of the nodes a core field's selectors match on page s
CoreTexts(s, f) ==
    LET nodes == IF f = "name" THEN s.h1_xlarge \o s.h1_panel
                 ELSE IF f = "headline" THEN s.div_body_medium
                 ELSE IF f = "location" THEN s.span_body_small
                 ELSE IF s.div_pv_about = <<>> THEN <<>> ELSE s.div_pv_about[1]
    IN  {Strip(nodes[k]) : k \in 1..Len(nodes)}

\* the two shapes of a record, with `placeholder` the text of a core field
\* that was not found
RecordShape(placeholder) ==
    pc = "extracted" =>
        \/ /\ DOMAIN profile_data = {"url"} \cup CoreFields \cup ListFields
           /\ served[1].ok
           /\ \A f \in CoreFields :
                 profile_data[f] \in CoreTexts(soup, f) \cup {placeholder}
           /\ \A f \in ListFields : DOMAIN profile_data[f] = 1..Len(profile_data[f])
        \/ /\ DOMAIN profile_data = {"url", "error"}
           /\ ~served[1].ok

\* C4, as stated: every record scrape_profile returns has one of two
\* shapes: url, the four core fields (each the trimmed text of a matching
\* node, or the placeholder "unknown") and the three list fields, without
\* `error`; or url and `error` and nothing else.
C4_AsClaimed == RecordShape("unknown")

\* C4, amended: the same two shapes, the placeholder of a core field that
\* was not found being "N/A".
C4_RecordShape == RecordShape("N/A")

\* C4 witness: a record with an extracted name and a placeholder headline
C4_Witness ==
    /\ Extracted
    /\ profile_data.name = "Jane Doe"
    /\ profile_data.headline = NA
    /\ ~HasError(profile_data)

RECURSIVE IsSubSeq(_, _)
\* a is b with some elements left out
IsSubSeq(a, b) ==
    IF a = <<>> THEN TRUE
    ELSE IF b = <<>> THEN FALSE
    ELSE IF Head(a) = Head(b) THEN IsSubSeq(Tail(a), Tail(b))
    ELSE IsSubSeq(a, Tail(b))

FirstSection(sections) == IF sections = <<>> THEN <<>> ELSE sections[1]

\* the entry a list item gives
CardEntry(item, k1, k2) ==
    (k1 :> TextOrNA(item.div_mr1)) @@ (k2 :> TextOrNA(item.span_t14))

\* kept is made of entries of the first cap candidates, in document order,
\* and lacks none of them when nothing threw
KeptFirst(kept, candidates, cap, complete) ==
    LET first == SubSeq(candidates, 1, Min(Len(candidates), cap))
    IN  /\ Len(kept) <= cap
        /\ IsSubSeq(kept, first)
        /\ complete => kept = first

\* C5: whatever the number of matching nodes, the record has at most 5
\* experience entries, 3 education entries and 10 skills, and they come
\* from the first matching nodes in document order.
C5_ListCaps ==
    Extracted =>
        LET xs == FirstSection(soup.section_experience)
            es == FirstSection(soup.section_education)
            ks == FirstSection(soup.section_skills)
        IN  /\ KeptFirst(profile_data.experience,
                         [k \in 1..Len(xs) |-> CardEntry(xs[k], "title", "company")],
                         ExpCap,
                         "experience" \notin soup.raises
                            /\ \A k \in 1..Len(xs) : ~xs[k].raises)
            /\ KeptFirst(profile_data.education,
                         [k \in 1..Len(es) |-> CardEntry(es[k], "school", "degree")],
                         EduCap,
                         "education" \notin soup.raises
                            /\ \A k \in 1..Len(es) : ~es[k].raises)
            /\ KeptFirst(profile_data.skills,
                         [k \in 1..Len(ks) |-> Strip(ks[k])],
                         SkillCap,
                         "skills" \notin soup.raises
                            /\ \A k \in 1..Len(ks) : ks[k] # BadNode /\ Strip(ks[k]) # "")

\* C5 witness: a page with more nodes than every cap, cut to 5, 3 and 10
C5_Witness ==
    /\ Extracted
    /\ Len(FirstSection(soup.section_skills)) > SkillCap
    /\ Len(profile_data.skills) = SkillCap

\* C5 witness, second case: more experience and education items than the caps
C5_WitnessCards ==
    /\ Extracted
    /\ Len(FirstSection(soup.section_experience)) > ExpCap
    /\ Len(FirstSection(soup.section_education)) > EduCap
    /\ Len(profile_data.experience) = ExpCap
    /\ Len(profile_data.education) = EduCap

\* the record of the same page with no selector throwing
CleanRecord == scrape_profile(ExtractUrl, NavPage([soup EXCEPT !.raises = {}])).value

\* C6: an exception while evaluating one field's selectors degrades only
\* that field (a core field to the placeholder, a list field to empty):
\* every other field has the value it has without the exception, and a
\* record without `error` is still returned for every page.
C6_BestEffortPerField ==
    /\ pc # "raised"
    /\ Extracted =>
          /\ ~HasError(profile_data)
          /\ \A f \in Fields :
                IF f \in soup.raises
                THEN profile_data[f] = IF f \in CoreFields THEN NA ELSE <<>>
                ELSE profile_data[f] = CleanRecord[f]

\* C6 witness: the headline selector threw on a full page; the headline is
\* the placeholder and the name and the skills were still extracted
C6_Witness ==
    /\ Extracted
    /\ soup.raises = {"headline"}
    /\ profile_data.headline = NA
    /\ profile_data.name = "Jane Doe"
    /\ Len(profile_data.skills) > 0

-----------------------------------------------------------------------------
(* Properties of main() as a whole *)

\* C11: on every exit path of a run in which a browser was started (normal
\* completion, interruption at any point, authentication failure, any
\* other error) the browser is quit before the process ends, and the
\* driver is never used once it is quit: it is quit only as the last step.
C11_BrowserReleased ==
    /\ pc = "exited" => driver # "running"
    /\ driver = "quit" => pc = "exited"
    /\ ~stale_use

\* C11 witness: the operator interrupted the batch between two profiles
\* and the browser was quit
C11_Witness ==
    /\ pc = "exited"
    /\ outcome = "interrupted"
    /\ driver = "quit"
    /\ idx = 1
    /\ Len(profile_urls) = 3

\* C11 witness, second path: the login fields timed out and the browser was quit
C11_WitnessAuthFailed ==
    /\ pc = "exited"
    /\ outcome = "error"
    /\ "timeout" \in TraceOps
    /\ driver = "quit"

\* C12: whenever login succeeded and the operator does not interrupt, the
\* batch run gets to its summary and returns the Batch Result, for any
\* URL list and any combination of fetch and output-write failures.
\* Stated of the runs that have left scrape_multiple_profiles.
C12_SummaryAndResult ==
    (LoginReturned /\ pc \in {"json", "closing", "exited"} /\ outcome # "interrupted") =>
        /\ summary.printed
        /\ returned = <<all_profiles>>
        /\ Len(all_profiles) = Len(profile_urls)

\* C13: in a batch of n >= 1 URLs a pacing sleep follows the record of
\* every URL but the last, whether it succeeded or failed: n - 1 in all.
C13_PacingBetween ==
    /\ Len(sleeps) = Len(all_profiles)
    /\ \A k \in 1..Len(sleeps) : sleeps[k] <=> k < Len(profile_urls)
    /\ (summary.printed /\ Len(profile_urls) >= 1) =>
          Cardinality({k \in 1..Len(sleeps) : sleeps[k]}) = Len(profile_urls) - 1

\* C13 witness: a finished batch of three, the first failed and the second
\* succeeded, with a sleep after each of them and none after the third
C13_Witness ==
    /\ summary.printed
    /\ Len(profile_urls) = 3
    /\ ~served[1].ok /\ served[2].ok
    /\ sleeps = <<TRUE, TRUE, FALSE>>

-----------------------------------------------------------------------------
(* _scroll_slowly, lines 213-234, on its own: the heights the page reports *)
(* are drawn at each measurement; the page grows at most MaxGrowths times. *)

\* scroll distances random.randint(200, 400) may give
ScrollSteps == {MinStep, MinStep + 1, (MinStep + MaxStep) \div 2, MaxStep}

\* document.body.scrollHeight at the first measurement (line 216)
InitialHeights == {0, 150, MinStep, 650, 1000}

\* by how much the page may have grown at a re-measurement (line 229)
Growths == {250, 500}

\* line 220
WhileCondition(position, height) == position < height

\* a test that leaves the loop one step early
BreakOneStepEarly(position, height) == position + MaxStep >= height

\* line 231
BreakCondition(position, height) == position >= height

\* whether the loop goes round again after a step
LoopContinues(position, height) ==
    ~BreakCondition(position, height) /\ WhileCondition(position, height)

InitScroll ==
    /\ pc = "scroll"
    /\ driver = "running"
    /\ cookies_file = "ok"
    /\ force_login = FALSE
    /\ current_url = ExtractUrl
    /\ login_trace = <<>>
    /\ outcome = "running"
    /\ profile_urls = <<ExtractUrl>>
    /\ idx = 0
    /\ all_profiles = <<>>
    /\ successful = 0
    /\ failed = 0
    /\ served = <<>>
    /\ sleeps = <<>>
    /\ summary = NoSummary
    /\ returned = NotReturned
    /\ csv_file = "absent"
    /\ soup = NoSoup
    /\ profile_data = NoRecord
    /\ stale_use = FALSE
    /\ ScrollIdle

scrollFrame == <<pc, driver, cookies_file, force_login, current_url, login_trace, outcome,
                 profile_urls, idx, all_profiles, successful, failed, served, sleeps,
                 summary, returned, csv_file, soup, profile_data>>

\* lines 216-220: the first measurements and the first test of the loop; a
\* script that throws ends the function through the handler of line 233
ScrollStart ==
    /\ scroll_pc = "idle"
    /\ pc = "scroll"
    /\ \E ok \in BOOLEAN, height \in InitialHeights :
          IF ok
          THEN /\ total_height' = height
               /\ scroll_pc' = IF WhileCondition(0, height) THEN "loop" ELSE "done"
          ELSE /\ scroll_pc' = "failed"
               /\ UNCHANGED total_height
    /\ current_position' = 0
    /\ stale_use' = UseDriver
    /\ UNCHANGED growths
    /\ UNCHANGED scrollFrame

\* lines 221-232: one iteration
ScrollStep ==
    /\ scroll_pc = "loop"
    /\ \E scroll_distance \in ScrollSteps, ok \in BOOLEAN, grown \in {0} \cup Growths :
          /\ grown > 0 => growths < MaxGrowths
          /\ current_position' = current_position + scroll_distance
          /\ IF ok
             THEN /\ total_height' = total_height + grown
                  /\ growths' = IF grown > 0 THEN growths + 1 ELSE growths
                  /\ scroll_pc' = IF LoopContinues(current_position', total_height')
                                  THEN "loop" ELSE "done"
             ELSE /\ scroll_pc' = "failed"
                  /\ UNCHANGED <<total_height, growths>>
    /\ stale_use' = UseDriver
    /\ UNCHANGED scrollFrame

NextScroll ==
    \/ ScrollStart
    \/ ScrollStep

\* the loop is sequential code with finite sleeps: it keeps taking steps
SpecScroll == InitScroll /\ [][NextScroll]_vars /\ WF_vars(NextScroll)

\* C14: every iteration advances the position by a positive step (200 to
\* 400) and goes round again only if the position is below the height
\* measured after that step; on a page that stops growing the function
\* ends, and when the loop ends by its own test the position is at or past
\* the last measured height.
C14_ScrollTerminates ==
    /\ [](scroll_pc = "done" => current_position >= total_height)
    /\ [][scroll_pc = "loop" =>
            /\ current_position' - current_position \in MinStep..MaxStep
            /\ scroll_pc' = "loop" => current_position' < total_height']_vars
    /\ <>(scroll_pc \in {"done", "failed"})

\* C14 witness: the page grew as often as it may and the loop then ended
\* past the last measured height
C14_Witness ==
    /\ scroll_pc = "done"
    /\ growths = MaxGrowths
    /\ current_position >= total_height
    /\ total_height > 1000

====
